---------------------------- MODULE Spec2Model ----------------------------
(***************************************************************************)
(* A state-machine model of pogs' CPU sparse matrix,                       *)
(* src/src/cpu/matrix/matrix_sparse.cpp: MatrixSparse<T> (constructor,     *)
(* copy constructor, destructor, Init, Mul, Equil) and its file-local      *)
(* helpers (OpToCblasOp, NormEst, MultRow, MultCol, MultDiag).             *)
(*                                                                         *)
(* The element type T is modelled by exact real arithmetic on numbers of   *)
(* the form  sg * (n/d)^(1/2^k)  (a signed 2^k-th root of a non-negative   *)
(* rational), which is closed under the products, quotients and square     *)
(* roots Equil takes; d = 0 stands for an infinity (1/0) and n = d = 0 for *)
(* a NaN.  Rounding is not modelled.  C arrays are sequences: C index i is *)
(* sequence position i + 1, and the index values stored in ptr/ind arrays  *)
(* stay 0-based as in the code.                                            *)
(***************************************************************************)
EXTENDS Integers, Sequences, FiniteSets, TLC

\* ------------------------------------------------------------------------
\* Bounds of the model.
\* ------------------------------------------------------------------------
\* Caller matrices have at most MaxCells cells (m * n <= MaxCells).
MaxCells == 4
\* The sign-codec specification also draws 1 x n rows with n <= MaxWide.
MaxWide == 5
\* Matrix instances that exist in the life-cycle specification.
MaxInst == 2
\* Successful Equil calls per instance.
MaxEquil == 1

\* ------------------------------------------------------------------------
\* Exact arithmetic for the element type T.
\* ------------------------------------------------------------------------
RECURSIVE Gcd(_, _)
Gcd(a, b) == IF b = 0 THEN a ELSE Gcd(b, a % b)

\* Floor of the square root of n >= 0, by bisection on [lo, hi].
RECURSIVE ISqrtIn(_, _, _)
ISqrtIn(n, lo, hi) ==
  IF lo >= hi THEN lo
  ELSE LET mid == (lo + hi + 1) \div 2
       IN  IF mid * mid <= n THEN ISqrtIn(n, mid, hi) ELSE ISqrtIn(n, lo, mid - 1)

\* 46340 is the largest root whose square fits a 32-bit integer.
ISqrt(n) == IF n < 2 THEN n ELSE ISqrtIn(n, 1, IF n \div 2 + 1 > 46340 THEN 46340 ELSE n \div 2 + 1)

IsSquare(n) == LET r == ISqrt(n) IN r * r = n

RECURSIVE Pow(_, _)
Pow(b, e) == IF e = 0 THEN 1 ELSE b * Pow(b, e - 1)

\* Lowest level: while n and d are both perfect squares, take their roots.
RECURSIVE Lower(_, _, _, _)
Lower(sg, n, d, k) ==
  IF k > 0 /\ IsSquare(n) /\ IsSquare(d)
  THEN Lower(sg, ISqrt(n), ISqrt(d), k - 1)
  ELSE [sg |-> IF n = 0 THEN 1 ELSE sg, n |-> n, d |-> d, k |-> IF n = 0 \/ d = 0 THEN 0 ELSE k]

\* The canonical representation of sg * (n/d)^(1/2^k).
Canon(sg, n, d, k) ==
  LET g == Gcd(n, d)
  IN  IF g = 0 THEN [sg |-> 1, n |-> 0, d |-> 0, k |-> 0]
      ELSE Lower(sg, n \div g, d \div g, k)

\* The integer i, and the rational p/q (q > 0), as numbers.
R(i) == [sg |-> IF i < 0 THEN -1 ELSE 1, n |-> IF i < 0 THEN -i ELSE i, d |-> 1, k |-> 0]
Q(p, q) == Canon(IF p < 0 THEN -1 ELSE 1, IF p < 0 THEN -p ELSE p, q, 0)

IsZero(a) == a.n = 0 /\ a.d # 0
IsNaN(a) == a.n = 0 /\ a.d = 0
IsInf(a) == a.n # 0 /\ a.d = 0
IsRational(a) == a.k = 0 /\ a.d # 0

\* a * b : both operands are raised to the common level, cross-reduced, multiplied.
NMul(a, b) ==
  LET k  == IF a.k > b.k THEN a.k ELSE b.k
      an == Pow(a.n, Pow(2, k - a.k))
      ad == Pow(a.d, Pow(2, k - a.k))
      bn == Pow(b.n, Pow(2, k - b.k))
      bd == Pow(b.d, Pow(2, k - b.k))
      g1 == LET g == Gcd(an, bd) IN IF g = 0 THEN 1 ELSE g
      g2 == LET g == Gcd(bn, ad) IN IF g = 0 THEN 1 ELSE g
  IN  Canon(a.sg * b.sg, (an \div g1) * (bn \div g2), (ad \div g2) * (bd \div g1), k)

\* 1 / a  (1/0 is the infinity, 1/infinity is 0).
NRecip(a) == Canon(a.sg, a.d, a.n, a.k)

NDiv(a, b) == NMul(a, NRecip(b))

NNeg(a) == IF a.n = 0 THEN a ELSE [a EXCEPT !.sg = -a.sg]

\* std::sqrt of a non-negative number; the square root of a negative one is NaN.
NSqrt(a) ==
  IF a.sg < 0 THEN [sg |-> 1, n |-> 0, d |-> 0, k |-> 0]
  ELSE Canon(1, a.n, a.d, a.k + 1)

NAbs(a) == [a EXCEPT !.sg = 1]

\* a + b for rationals (level 0); an infinite or NaN operand gives that operand.
RAdd(a, b) ==
  IF a.d = 0 THEN a
  ELSE IF b.d = 0 THEN b
  ELSE LET g == Gcd(a.d, b.d)
           p == a.sg * a.n * (b.d \div g) + b.sg * b.n * (a.d \div g)
       IN  Q(p, (a.d \div g) * b.d)

\* a + b for two commensurable numbers (b/a rational): a * (1 + b/a).  The sum
\* of incommensurable numbers is not a number of this form (NaN here); Mul,
\* which adds such numbers, keeps sums as sets of terms (SAdd below).
NAdd(a, b) ==
  IF IsZero(a) THEN b
  ELSE IF IsZero(b) THEN a
  ELSE IF a.k = 0 /\ b.k = 0 THEN RAdd(a, b)
  ELSE LET q == NDiv(b, a)
       IN  IF q.k = 0 THEN NMul(a, RAdd(R(1), q))
           ELSE [sg |-> 1, n |-> 0, d |-> 0, k |-> 0]

Commensurable(a, b) == IsRational(NDiv(b, a))

\* A real that is a sum of incommensurable numbers is the set of its terms;
\* the empty set is 0.  SAdd adds one term, merging it with a commensurable one.
SAdd(S, t) ==
  IF IsZero(t) THEN S
  ELSE IF \E u \in S : Commensurable(u, t)
       THEN LET u == CHOOSE u \in S : Commensurable(u, t)
                w == NAdd(u, t)
            IN  IF IsZero(w) THEN S \ {u} ELSE (S \ {u}) \cup {w}
       ELSE S \cup {t}

\* ------------------------------------------------------------------------
\* C arrays and the heap.
\* ------------------------------------------------------------------------
\* The C array whose element at 0-based index i - 1 is f[i], as a sequence.
Arr(f) == f \o <<>>

\* a[i] for a C array a (0-based i).
At(a, i) == a[i + 1]

\* The elements a[off .. off+len-1] of a C array, i.e. the array (a + off, len).
Slice(a, off, len) == Arr([i \in 1..len |-> a[off + i]])

\* a with the len elements from offset off replaced by those of b.
Splice(a, off, b) ==
  Arr([i \in 1..Len(a) |-> IF i > off /\ i <= off + Len(b) THEN b[i - off] ELSE a[i]])

Min(a, b) == IF a < b THEN a ELSE b

\* operator new: the block lives at the next fresh address.
New(hp, na, blk) == [heap |-> hp @@ (na :> blk), addr |-> na, next |-> na + 1]

\* operator delete: the block is released and the release is counted.  Deleting
\* an address that is not live is undefined in C++; here it is counted too, so
\* that a second release of a block shows as a count of 2.
Delete(hp, fr, a) ==
  [heap  |-> [b \in DOMAIN hp \ {a} |-> hp[b]],
   frees |-> IF a \in DOMAIN fr THEN [fr EXCEPT ![a] = @ + 1] ELSE fr @@ (a :> 1)]

\* ------------------------------------------------------------------------
\* The caller's input: one compressed-row or compressed-column triple.
\* ------------------------------------------------------------------------
\* Values of the stored entries of the enumerated inputs (0 = not stored).
EntryVals == {-2, 1}

Shapes(maxCells) ==
  {s \in (1..maxCells) \X (1..maxCells) : s[1] * s[2] <= maxCells}

\* The (row, col) of the c-th cell, rows first / columns first, 0-based.
RowMajorCell(n, c) == <<(c - 1) \div n, (c - 1) % n>>
ColMajorCell(m, c) == <<(c - 1) % m, (c - 1) \div m>>

\* The compressed triple of the dense m x n matrix `cells` (row-major cell
\* values, 0 = absent) in the orientation named by the character ord.
Compress(ord, m, n, cells) ==
  LET row  == ord \in {"r", "R"}
      cell(c) == IF row THEN RowMajorCell(n, c) ELSE ColMajorCell(m, c)
      val(c)  == LET rc == cell(c) IN cells[rc[1] * n + rc[2] + 1]
      order == SelectSeq(Arr([c \in 1..(m * n) |-> c]), LAMBDA c : val(c) # 0)
      pdim  == IF row THEN m ELSE n
  IN  [ord  |-> ord, m |-> m, n |-> n, nnz |-> Len(order),
       data |-> Arr([i \in 1..Len(order) |-> R(val(order[i]))]),
       ind  |-> Arr([i \in 1..Len(order) |-> cell(order[i])[IF row THEN 2 ELSE 1]]),
       ptr  |-> Arr([t \in 1..(pdim + 1) |->
                   Cardinality({i \in 1..Len(order) :
                                  cell(order[i])[IF row THEN 1 ELSE 2] < t - 1})])]

\* The spec's concrete scenario: 2 x 2, row-compressed, values [4,2,3],
\* offsets [0,2,3], indices [0,1,1].
Scenario == Compress("r", 2, 2, <<4, 2, 0, 3>>)

InputsOfShape(m, n) ==
  {Compress(o, m, n, c) : o \in {"r", "C"}, c \in [1..(m * n) -> EntryVals \cup {0}]}

Inputs ==
  UNION {InputsOfShape(s[1], s[2]) : s \in Shapes(MaxCells)} \cup {Scenario}

\* Single rows and single columns long enough for the sign codec's bulk pass.
WideInputs ==
  UNION {InputsOfShape(1, n) \cup InputsOfShape(n, 1) : n \in 1..MaxWide}

\* ------------------------------------------------------------------------
\* State.
\* ------------------------------------------------------------------------
VARIABLES
  input,            \* the caller's compressed triple (caller-owned, never written)
  mats,             \* the MatrixSparse instances, by slot
  heap,             \* live heap blocks, by address
  nextAddr,         \* the next fresh heap address
  frees,            \* address -> number of times it was deleted
  equilCalls,       \* slot -> number of Equil calls that ran on it
  normEquilibrate,  \* the build's kNormEquilibrate
  normNormalize,    \* the build's kNormNormalize
  aborted,          \* ASSERT failed: the process has exited
  last              \* the most recent call, its arguments and its results

vars == <<input, mats, heap, nextAddr, frees, equilCalls, normEquilibrate,
          normNormalize, aborted, last>>

NormTypes == {"kNorm1", "kNorm2", "kNormFro"}

\* File scoped constants.
kNormEquilibrate == "kNorm2"
kNormNormalize == "kNormFro"

\* A slot in which no object has been constructed yet.
NoMatrix ==
  [st |-> "none", _m |-> 0, _n |-> 0, _nnz |-> 0, _ord |-> "ROW", _info |-> 0,
   _done_init |-> FALSE, _data |-> 0, _ptr |-> 0, _ind |-> 0]

\* The pointers a CpuData holds name the caller's arrays.
CpuData(data, ptr, ind) ==
  [kind |-> "CpuData", v |-> [orig_data |-> data, orig_ptr |-> ptr, orig_ind |-> ind]]

\* ------------------------------------------------------------------------
\* Construction and destruction.
\* ------------------------------------------------------------------------
\* MatrixSparse(ord, m, n, nnz, data, ptr, ind): Matrix<T>(m, n) leaves the
\* object uninitialized; the three owned pointers are null; a CpuData is
\* allocated for the caller's pointers.
Ctor(hp, na, ord, m, n, nnz, data, ptr, ind) ==
  LET al == New(hp, na, CpuData(data, ptr, ind))
  IN  [A |-> [st |-> "live", _m |-> m, _n |-> n, _nnz |-> nnz,
              _ord |-> IF ord = "r" \/ ord = "R" THEN "ROW" ELSE "COL",
              _info |-> al.addr, _done_init |-> FALSE,
              _data |-> 0, _ptr |-> 0, _ind |-> 0],
       heap |-> al.heap, next |-> al.next]

\* A plausible slip: the copy takes over the source's pointers and its flag, as
\* a member-wise copy would.
CopyCtor_shallow(hp, na, B) ==
  LET al == New(hp, na, CpuData(hp[B._info].v.orig_data, hp[B._info].v.orig_ptr,
                                hp[B._info].v.orig_ind))
  IN  [A |-> [B EXCEPT !._info = al.addr], heap |-> al.heap, next |-> al.next]

\* MatrixSparse(const MatrixSparse& A): dimensions, nnz and order of A, null
\* owned pointers, uninitialized, and a CpuData of its own with A's pointers.
CopyCtor(hp, na, B) ==
  LET info_A == hp[B._info].v
      al == New(hp, na, CpuData(info_A.orig_data, info_A.orig_ptr, info_A.orig_ind))
  IN  [A |-> [st |-> "live", _m |-> B._m, _n |-> B._n, _nnz |-> B._nnz,
              _ord |-> B._ord, _info |-> al.addr, _done_init |-> FALSE,
              _data |-> 0, _ptr |-> 0, _ind |-> 0],
       heap |-> al.heap, next |-> al.next]

\* ~MatrixSparse(): the CpuData is deleted; the owned buffers are deleted when
\* Init ran and the pointer is not null.
Dtor(hp, fr, A) ==
  LET d0 == Delete(hp, fr, A._info)
      d1 == IF A._done_init /\ A._data # 0 THEN Delete(d0.heap, d0.frees, A._data) ELSE d0
      d2 == IF A._done_init /\ A._ptr # 0 THEN Delete(d1.heap, d1.frees, A._ptr) ELSE d1
      d3 == IF A._done_init /\ A._ind # 0 THEN Delete(d2.heap, d2.frees, A._ind) ELSE d2
  IN  [A |-> [A EXCEPT !.st = "dead", !._info = 0,
                       !._data = IF A._done_init THEN 0 ELSE @,
                       !._ptr = IF A._done_init THEN 0 ELSE @,
                       !._ind = IF A._done_init THEN 0 ELSE @],
       heap |-> d3.heap, frees |-> d3.frees]

\* ------------------------------------------------------------------------
\* The dual storage (gsl::spmat over the three buffers).
\* ------------------------------------------------------------------------
\* Length of the pointer array of the native view of an spmat of this order.
PtrLen(order, m, n) == IF order = "CblasRowMajor" THEN m + 1 ELSE n + 1

\* The bucket of entry i (0-based) under the pointer array ptr with pdim buckets.
BucketOf(ptr, pdim, i) == CHOOSE t \in 0..(pdim - 1) : At(ptr, t) <= i /\ i < At(ptr, t + 1)

\* Sparse transpose by counting sort: the entries of the compressed view
\* (val, ind, ptr) with pdim buckets and secondary indices below sdim, regrouped
\* by secondary index, in their original order inside each new bucket.
Transpose(pdim, sdim, nnz, val, ind, ptr) ==
  LET count(s) == Cardinality({i \in 0..(nnz - 1) : At(ind, i) = s})
      start(s) == Cardinality({i \in 0..(nnz - 1) : At(ind, i) < s})
      \* where entry i is scattered to
      dest(i)  == start(At(ind, i)) +
                  Cardinality({j \in 0..(i - 1) : At(ind, j) = At(ind, i)})
      src(k)   == CHOOSE i \in 0..(nnz - 1) : dest(i) = k
  IN  [val |-> Arr([k \in 1..nnz |-> At(val, src(k - 1))]),
       ind |-> Arr([k \in 1..nnz |-> BucketOf(ptr, pdim, src(k - 1))]),
       ptr |-> Arr([s \in 1..(sdim + 1) |-> start(s - 1)])]

\* gsl::spmat_memcpy(&A, val, ind, ptr): the caller's view is copied into the
\* first half of the buffers and its transpose is built in the second half.
spmat_memcpy(order, m, n, nnz, val, ind, ptr) ==
  LET pdim == IF order = "CblasRowMajor" THEN m ELSE n
      sdim == IF order = "CblasRowMajor" THEN n ELSE m
      nat  == [val |-> Slice(val, 0, nnz), ind |-> Slice(ind, 0, nnz),
               ptr |-> Slice(ptr, 0, pdim + 1)]
      tr   == Transpose(pdim, sdim, nnz, nat.val, nat.ind, nat.ptr)
  IN  [val |-> nat.val \o tr.val, ind |-> nat.ind \o tr.ind, ptr |-> nat.ptr \o tr.ptr]

\* The order of the spmat that Init, Mul build over the buffers of a matrix.
SpmatOrder(ord) == IF ord = "ROW" THEN "CblasRowMajor" ELSE "CblasColMajor"

\* A plausible slip: a second Init is not rejected.
InitCall_noguard(A, hp, na, in) ==
  LET info  == hp[A._info].v
      bufs  == spmat_memcpy(SpmatOrder(A._ord), A._m, A._n, A._nnz,
                            in[info.orig_data], in[info.orig_ind], in[info.orig_ptr])
      a1    == New(hp, na, [kind |-> "T", v |-> bufs.val])
      a2    == New(a1.heap, a1.next, [kind |-> "INT", v |-> bufs.ind])
      a3    == New(a2.heap, a2.next, [kind |-> "INT", v |-> bufs.ptr])
  IN  [status |-> 0,
       A |-> [A EXCEPT !._done_init = TRUE, !._data = a1.addr, !._ind = a2.addr,
                       !._ptr = a3.addr],
       heap |-> a3.heap, next |-> a3.next]

\* MatrixSparse<T>::Init().  `in` is the caller's memory.
InitCall(A, hp, na, in) ==
  IF A._done_init
  THEN [status |-> 1, A |-> A, heap |-> hp, next |-> na]
  ELSE LET info  == hp[A._info].v
           bufs  == spmat_memcpy(SpmatOrder(A._ord), A._m, A._n, A._nnz,
                                 in[info.orig_data], in[info.orig_ind], in[info.orig_ptr])
           a1    == New(hp, na, [kind |-> "T", v |-> bufs.val])
           a2    == New(a1.heap, a1.next, [kind |-> "INT", v |-> bufs.ind])
           a3    == New(a2.heap, a2.next, [kind |-> "INT", v |-> bufs.ptr])
       IN  [status |-> 0,
            A |-> [A EXCEPT !._done_init = TRUE, !._data = a1.addr, !._ind = a2.addr,
                            !._ptr = a3.addr],
            heap |-> a3.heap, next |-> a3.next]

\* ------------------------------------------------------------------------
\* Mul.
\* ------------------------------------------------------------------------
\* The sum of two reals given by their terms.
RECURSIVE SPlus(_, _)
SPlus(S, U) ==
  IF U = {} THEN S
  ELSE LET t == CHOOSE t \in U : TRUE IN SPlus(SAdd(S, t), U \ {t})

\* alpha * S: scaling keeps the terms incommensurable.
SScale(alpha, S) == IF IsZero(alpha) THEN {} ELSE {NMul(alpha, t) : t \in S}

\* The real a as a sum of terms.
Lift(a) == IF IsZero(a) THEN {} ELSE {a}

\* OpToCblasOp(trans), for trans one of n, N, t, T.
OpToCblasOp(trans) ==
  IF trans = "n" \/ trans = "N" THEN "CblasNoTrans" ELSE "CblasTrans"

\* sum of val[i] * x[ind[i]] for lo <= i < hi, the arrays read from offset off.
RECURSIVE DotBucket(_, _, _, _, _, _, _)
DotBucket(val, ind, off, x, i, hi, acc) ==
  IF i >= hi THEN acc
  ELSE DotBucket(val, ind, off, x, i + 1, hi,
                 SAdd(acc, NMul(At(val, off + i), At(x, At(ind, off + i)))))

\* gsl::spblas_gemv(trans, alpha, &A, &x, beta, &y) for the spmat A of the given
\* order over the buffers (val, ind, ptr): y := alpha * op(A) * x + beta * y,
\* walking the half whose buckets are the entries of y.
spblas_gemv(trans, alpha, order, m, n, nnz, val, ind, ptr, x, beta, y) ==
  LET direct == (order = "CblasRowMajor") = (trans = "CblasNoTrans")
      off    == IF direct THEN 0 ELSE nnz
      poff   == IF direct THEN 0 ELSE PtrLen(order, m, n)
      len    == IF trans = "CblasNoTrans" THEN m ELSE n
  IN  Arr([t \in 1..len |->
         SPlus(SScale(alpha, DotBucket(val, ind, off, x, At(ptr, poff + t - 1),
                                       At(ptr, poff + t), {})),
               SScale(beta, y[t]))])

\* A plausible slip: alpha and beta change places in the call of gemv.
MulCall_swapped(A, hp, trans, alpha, x, beta, y) ==
  IF ~A._done_init THEN [status |-> 1, y |-> y]
  ELSE LET notrans == trans = "n" \/ trans = "N"
           x_vec == Slice(x, 0, IF notrans THEN A._n ELSE A._m)
           y_vec == Slice(y, 0, IF notrans THEN A._m ELSE A._n)
       IN  [status |-> 0,
            y |-> Splice(y, 0, spblas_gemv(OpToCblasOp(trans), beta, SpmatOrder(A._ord),
                                           A._m, A._n, A._nnz, hp[A._data].v,
                                           hp[A._ind].v, hp[A._ptr].v, x_vec, alpha, y_vec))]

\* MatrixSparse<T>::Mul(trans, alpha, x, beta, y).
MulCall(A, hp, trans, alpha, x, beta, y) ==
  IF ~A._done_init THEN [status |-> 1, y |-> y]
  ELSE LET notrans == trans = "n" \/ trans = "N"
           x_vec == Slice(x, 0, IF notrans THEN A._n ELSE A._m)
           y_vec == Slice(y, 0, IF notrans THEN A._m ELSE A._n)
       IN  [status |-> 0,
            y |-> Splice(y, 0, spblas_gemv(OpToCblasOp(trans), alpha, SpmatOrder(A._ord),
                                           A._m, A._n, A._nnz, hp[A._data].v,
                                           hp[A._ind].v, hp[A._ptr].v, x_vec, beta, y_vec))]

\* ------------------------------------------------------------------------
\* Equilibration helpers.
\* ------------------------------------------------------------------------
\* The functors of equil_helper.h.
ApplyF(f, x) ==
  CASE f = "SquareF" -> NMul(x, x)
    [] f = "AbsF" -> NAbs(x)
    [] f = "SqrtF" -> NSqrt(x)
    [] f = "IdentityF" -> x

Bit(byte, i) == (byte \div Pow(2, i)) % 2

\* The sign bits of x[off .. off+cnt-1] packed into one byte, bit i for entry i.
RECURSIVE PackBits(_, _, _, _)
PackBits(x, off, cnt, i) ==
  IF i >= cnt THEN 0
  ELSE (IF At(x, off + i).sg < 0 THEN Pow(2, i) ELSE 0) + PackBits(x, off, cnt, i + 1)

\* The codec passes work on [x |-> values, sign |-> sign bytes, set |-> how often
\* each value was sign-extracted, unset |-> how often it was sign-restored].

\* SetSign(x, sign, size, f): for each of the `size` bytes, the signs of its 8
\* values are packed into the byte and the values are replaced by f(value).
SetSign(b, xoff, soff, size, f) ==
  [b EXCEPT
     !.x = Arr([j \in 1..Len(b.x) |->
              IF j > xoff /\ j <= xoff + 8 * size THEN ApplyF(f, b.x[j]) ELSE b.x[j]]),
     !.sign = Arr([t \in 1..Len(b.sign) |->
              IF t > soff /\ t <= soff + size
              THEN PackBits(b.x, xoff + 8 * (t - soff - 1), 8, 0) ELSE b.sign[t]]),
     !.set = Arr([j \in 1..Len(b.x) |->
              IF j > xoff /\ j <= xoff + 8 * size THEN b.set[j] + 1 ELSE b.set[j]])]

\* SetSignSingle(x, sign, bits, f): the same for the first `bits` values of x
\* and the one byte sign[0].
SetSignSingle(b, xoff, soff, bits, f) ==
  [b EXCEPT
     !.x = Arr([j \in 1..Len(b.x) |->
              IF j > xoff /\ j <= xoff + bits THEN ApplyF(f, b.x[j]) ELSE b.x[j]]),
     !.sign = [b.sign EXCEPT ![soff + 1] = PackBits(b.x, xoff, bits, 0)],
     !.set = Arr([j \in 1..Len(b.x) |->
              IF j > xoff /\ j <= xoff + bits THEN b.set[j] + 1 ELSE b.set[j]])]

\* UnSetSign(x, sign, size, f): x[8t+i] = (1 - 2 * bit i of sign[t]) * f(x[8t+i]).
UnSetSign(b, xoff, soff, size, f) ==
  [b EXCEPT
     !.x = Arr([j \in 1..Len(b.x) |->
              IF j > xoff /\ j <= xoff + 8 * size
              THEN LET i == j - xoff - 1
                   IN  NMul(R(1 - 2 * Bit(At(b.sign, soff + i \div 8), i % 8)),
                            ApplyF(f, b.x[j]))
              ELSE b.x[j]]),
     !.unset = Arr([j \in 1..Len(b.x) |->
              IF j > xoff /\ j <= xoff + 8 * size THEN b.unset[j] + 1 ELSE b.unset[j]])]

\* UnSetSignSingle(x, sign, bits, f).
UnSetSignSingle(b, xoff, soff, bits, f) ==
  [b EXCEPT
     !.x = Arr([j \in 1..Len(b.x) |->
              IF j > xoff /\ j <= xoff + bits
              THEN NMul(R(1 - 2 * Bit(At(b.sign, soff), j - xoff - 1)), ApplyF(f, b.x[j]))
              ELSE b.x[j]]),
     !.unset = Arr([j \in 1..Len(b.x) |->
              IF j > xoff /\ j <= xoff + bits THEN b.unset[j] + 1 ELSE b.unset[j]])]

\* Where the row-compressed and the column-compressed view of a matrix of
\* storage order ord start in the value/index buffers (off) and in the pointer
\* buffer (poff): the caller's view comes first, as MultDiag walks it.
RowHalf(ord, m, n, nnz) ==
  IF ord = "ROW" THEN [off |-> 0, poff |-> 0] ELSE [off |-> nnz, poff |-> n + 1]
ColHalf(ord, m, n, nnz) ==
  IF ord = "ROW" THEN [off |-> nnz, poff |-> m + 1] ELSE [off |-> 0, poff |-> 0]

\* sum of val[i] * w[ind[i]] for lo <= i < hi, the arrays read from offset off.
RECURSIVE Aggregate(_, _, _, _, _, _, _)
Aggregate(val, ind, off, w, i, hi, acc) ==
  IF i >= hi THEN acc
  ELSE Aggregate(val, ind, off, w, i + 1, hi,
                 NAdd(acc, NMul(At(val, off + i), At(w, At(ind, off + i)))))

\* Sweeps of the Sinkhorn-Knopp iteration.
kEquilIter == 1

\* One sweep: d[i] is divided by the aggregate of row i of diag(d) A diag(e),
\* then e[j] by the aggregate of column j.
SinkhornSweep(ord, m, n, nnz, val, ind, ptr, d, e) ==
  LET rh == RowHalf(ord, m, n, nnz)
      ch == ColHalf(ord, m, n, nnz)
      d1 == Arr([i \in 1..m |->
               NDiv(d[i], NMul(d[i], Aggregate(val, ind, rh.off, e,
                                 At(ptr, rh.poff + i - 1), At(ptr, rh.poff + i), R(0))))])
      e1 == Arr([j \in 1..n |->
               NDiv(e[j], NMul(e[j], Aggregate(val, ind, ch.off, d1,
                                 At(ptr, ch.poff + j - 1), At(ptr, ch.poff + j), R(0))))])
  IN  [d |-> d1, e |-> e1]

RECURSIVE SinkhornSweeps(_, _, _, _, _, _, _, _, _)
SinkhornSweeps(ord, m, n, nnz, val, ind, ptr, de, k) ==
  IF k = 0 THEN de
  ELSE SinkhornSweeps(ord, m, n, nnz, val, ind, ptr,
                      SinkhornSweep(ord, m, n, nnz, val, ind, ptr, de.d, de.e), k - 1)

\* SinkhornKnopp(A, d, e): d and e start at 1 and are swept kEquilIter times.
\* The matrix is read, not written.
SinkhornKnopp(ord, m, n, nnz, val, ind, ptr) ==
  SinkhornSweeps(ord, m, n, nnz, val, ind, ptr,
                 [d |-> Arr([i \in 1..m |-> R(1)]), e |-> Arr([j \in 1..n |-> R(1)])], kEquilIter)

\* Performs D * A * E for A in row major: the arrays are (data + doff),
\* (row_ptr + poff), (col_ind + ioff).
RECURSIVE MultRowInner(_, _, _, _, _, _, _, _, _, _)
MultRowInner(d, e, data, doff, ptr, poff, ind, ioff, t, i) ==
  IF i >= At(ptr, poff + t + 1) THEN data
  ELSE MultRowInner(d, e,
         [data EXCEPT ![doff + i + 1] = NMul(@, NMul(At(d, t), At(e, At(ind, ioff + i))))],
         doff, ptr, poff, ind, ioff, t, i + 1)

RECURSIVE MultRowFrom(_, _, _, _, _, _, _, _, _, _)
MultRowFrom(d, e, data, doff, ptr, poff, ind, ioff, size, t) ==
  IF t >= size THEN data
  ELSE MultRowFrom(d, e,
         MultRowInner(d, e, data, doff, ptr, poff, ind, ioff, t, At(ptr, poff + t)),
         doff, ptr, poff, ind, ioff, size, t + 1)

MultRow(d, e, data, doff, ptr, poff, ind, ioff, size) ==
  MultRowFrom(d, e, data, doff, ptr, poff, ind, ioff, size, 0)

\* Performs D * A * E for A in col major.
RECURSIVE MultColInner(_, _, _, _, _, _, _, _, _, _)
MultColInner(d, e, data, doff, ptr, poff, ind, ioff, t, i) ==
  IF i >= At(ptr, poff + t + 1) THEN data
  ELSE MultColInner(d, e,
         [data EXCEPT ![doff + i + 1] = NMul(@, NMul(At(d, At(ind, ioff + i)), At(e, t)))],
         doff, ptr, poff, ind, ioff, t, i + 1)

RECURSIVE MultColFrom(_, _, _, _, _, _, _, _, _, _)
MultColFrom(d, e, data, doff, ptr, poff, ind, ioff, size, t) ==
  IF t >= size THEN data
  ELSE MultColFrom(d, e,
         MultColInner(d, e, data, doff, ptr, poff, ind, ioff, t, At(ptr, poff + t)),
         doff, ptr, poff, ind, ioff, size, t + 1)

MultCol(d, e, data, doff, ptr, poff, ind, ioff, size) ==
  MultColFrom(d, e, data, doff, ptr, poff, ind, ioff, size, 0)

\* A plausible slip: the second half's pointer array is taken one element early.
MultDiag_ptr(d, e, m, n, nnz, ord, data, ind, ptr) ==
  IF ord = "ROW"
  THEN MultCol(d, e, MultRow(d, e, data, 0, ptr, 0, ind, 0, m), nnz, ptr, m, ind, nnz, n)
  ELSE MultRow(d, e, MultCol(d, e, data, 0, ptr, 0, ind, 0, n), nnz, ptr, n, ind, nnz, m)

\* A plausible slip: only the first half is scaled.
MultDiag_half(d, e, m, n, nnz, ord, data, ind, ptr) ==
  IF ord = "ROW"
  THEN MultRow(d, e, data, 0, ptr, 0, ind, 0, m)
  ELSE MultCol(d, e, data, 0, ptr, 0, ind, 0, n)

\* MultDiag(d, e, m, n, nnz, ord, data, ind, ptr).
MultDiag(d, e, m, n, nnz, ord, data, ind, ptr) ==
  IF ord = "ROW"
  THEN MultCol(d, e, MultRow(d, e, data, 0, ptr, 0, ind, 0, m), nnz, ptr, m + 1, ind, nnz, n)
  ELSE MultRow(d, e, MultCol(d, e, data, 0, ptr, 0, ind, 0, n), nnz, ptr, n + 1, ind, nnz, m)

\* gsl::blas_nrm2 of the first len elements of a: the root of the sum of squares.
RECURSIVE SumSquares(_, _, _)
SumSquares(a, len, acc) ==
  IF len = 0 THEN acc ELSE SumSquares(a, len - 1, NAdd(acc, NMul(a[len], a[len])))

blas_nrm2(a, len) == NSqrt(SumSquares(a, len, R(0)))

\* A plausible slip: the norm is taken over the whole value buffer.
NormEst_all(norm_type, m, n, nnz, data, n2) ==
  IF norm_type = "kNorm2" THEN [ok |-> TRUE, val |-> n2]
  ELSE IF norm_type = "kNormFro"
  THEN [ok |-> TRUE, val |-> NDiv(blas_nrm2(data, 2 * nnz), NSqrt(R(Min(m, n))))]
  ELSE [ok |-> FALSE, val |-> R(0)]

\* NormEst(norm_type, A): A.Data() is the value buffer, A.Nnz() is nnz; n2 is
\* what Norm2Est(&A) returns.  ok = FALSE: ASSERT(false) was reached.
NormEst(norm_type, m, n, nnz, data, n2) ==
  IF norm_type = "kNorm2" THEN [ok |-> TRUE, val |-> n2]
  ELSE IF norm_type = "kNormFro"
  THEN [ok |-> TRUE, val |-> NDiv(blas_nrm2(data, nnz), NSqrt(R(Min(m, n))))]
  ELSE [ok |-> FALSE, val |-> R(0)]

\* ------------------------------------------------------------------------
\* Equil.
\* ------------------------------------------------------------------------
\* f of  "A = f(A)"  and its inverse direction, by the equilibration norm.
ForwardF(norm) == IF norm = "kNorm2" \/ norm = "kNormFro" THEN "SquareF" ELSE "AbsF"
BackwardF(norm) == IF norm = "kNorm2" \/ norm = "kNormFro" THEN "SqrtF" ELSE "IdentityF"

\* Fill sign bits: num_chars bytes of 8 values each, then the last few values.
ExtractSigns(b, num_el, norm) ==
  LET num_chars == num_el \div 8
      b1 == SetSign(b, 0, 0, num_chars, ForwardF(norm))
  IN  IF num_el > num_chars * 8
      THEN SetSignSingle(b1, num_chars * 8, num_chars, num_el - num_chars * 8, ForwardF(norm))
      ELSE b1

\* A plausible slip: the last few values are not restored.
RestoreSigns_notail(b, num_el, norm) ==
  UnSetSign(b, 0, 0, num_el \div 8, BackwardF(norm))

\* Transform A = sign(A) .* sqrt(A) or A = sign(A) .* A: the bytes, then the
\* last few values.
RestoreSigns(b, num_el, norm) ==
  LET num_chars == num_el \div 8
      b1 == UnSetSign(b, 0, 0, num_chars, BackwardF(norm))
  IN  IF num_el > num_chars * 8
      THEN UnSetSignSingle(b1, num_chars * 8, num_chars, num_el - num_chars * 8,
                           BackwardF(norm))
      ELSE b1

\* A plausible slip: the identity functor is never chosen.
SqrtScale_always(v, norm) == Arr([i \in 1..Len(v) |-> ApplyF("SqrtF", v[i])])

\* Compute D := sqrt(D), E := sqrt(E), if 2-norm was equilibrated.
SqrtScale(v, norm) ==
  IF norm = "kNorm2" \/ norm = "kNormFro"
  THEN Arr([i \in 1..Len(v) |-> ApplyF("SqrtF", v[i])])
  ELSE v

\* gsl::vector_scale(&v, c).
vector_scale(v, c) == Arr([i \in 1..Len(v) |-> NMul(v[i], c)])

\* A plausible slip: e is not rescaled.
ScaleDE_donly(d, e, normA) ==
  [d |-> vector_scale(d, NDiv(R(1), NSqrt(normA))), e |-> e]

\* Scale d and e to account for normalization of A.
ScaleDE(d, e, normA) ==
  [d |-> vector_scale(d, NDiv(R(1), NSqrt(normA))),
   e |-> vector_scale(e, NDiv(R(1), NSqrt(normA)))]

\* A plausible slip: the sign buffer is not released.
FreeSign_leak(hp, fr, sign) == [heap |-> hp, frees |-> fr]

\* delete [] sign.
FreeSign(hp, fr, sign) == Delete(hp, fr, sign)

\* The content of a caller buffer that the callee has not written.
Unwritten == [sg |-> 0, n |-> 0, d |-> 0, k |-> 0]

\* ------------------------------------------------------------------------
\* The caller: which calls it makes, and with which arguments.
\* ------------------------------------------------------------------------
TransChars == {"n", "N", "t", "T"}
\* The two calls of Mul the caller makes, for vectors of the lengths xlen, ylen:
\* y := A x from x = 1, 1, ... and y = 0, 0, ... (the documented scenario), and
\* y := -2 A x + 3 y from x = 1, -2, 3, ... and y = 2, 3, 4, ...
MulArgs(xlen, ylen) ==
  {[alpha |-> R(1), beta |-> R(0),
    x |-> Arr([i \in 1..xlen |-> R(1)]), y |-> Arr([i \in 1..ylen |-> Lift(R(0))])],
   [alpha |-> R(-2), beta |-> R(3),
    x |-> Arr([i \in 1..xlen |-> R(IF i % 2 = 1 THEN i ELSE -i)]),
    y |-> Arr([i \in 1..ylen |-> Lift(R(i + 1))])]}
\* What the power iteration Norm2Est may return.
Norm2EstRange == {R(1), R(3)}

Construct(i) ==
  /\ ~aborted
  /\ mats[i].st = "none"
  /\ LET c == Ctor(heap, nextAddr, input.ord, input.m, input.n, input.nnz,
                   "data", "ptr", "ind")
     IN  /\ mats' = [mats EXCEPT ![i] = c.A]
         /\ heap' = c.heap
         /\ nextAddr' = c.next
  /\ last' = [op |-> "ctor", inst |-> i, status |-> 0]
  /\ UNCHANGED <<input, frees, equilCalls, normEquilibrate, normNormalize, aborted>>

CopyConstruct(i, j) ==
  /\ ~aborted
  /\ mats[i].st = "none"
  /\ mats[j].st = "live"
  /\ LET c == CopyCtor(heap, nextAddr, mats[j])
     IN  /\ mats' = [mats EXCEPT ![i] = c.A]
         /\ heap' = c.heap
         /\ nextAddr' = c.next
  /\ last' = [op |-> "copy", inst |-> i, status |-> 0, from |-> j]
  /\ UNCHANGED <<input, frees, equilCalls, normEquilibrate, normNormalize, aborted>>

Destroy(i) ==
  /\ ~aborted
  /\ mats[i].st = "live"
  /\ LET r == Dtor(heap, frees, mats[i])
     IN  /\ mats' = [mats EXCEPT ![i] = r.A]
         /\ heap' = r.heap
         /\ frees' = r.frees
  /\ last' = [op |-> "dtor", inst |-> i, status |-> 0]
  /\ UNCHANGED <<input, nextAddr, equilCalls, normEquilibrate, normNormalize, aborted>>

MatrixSparse_Init(i) ==
  /\ ~aborted
  /\ mats[i].st = "live"
  /\ LET r == InitCall(mats[i], heap, nextAddr, input)
     IN  /\ mats' = [mats EXCEPT ![i] = r.A]
         /\ heap' = r.heap
         /\ nextAddr' = r.next
         /\ last' = [op |-> "Init", inst |-> i, status |-> r.status]
  /\ UNCHANGED <<input, frees, equilCalls, normEquilibrate, normNormalize, aborted>>

Mul(i) ==
  /\ ~aborted
  /\ mats[i].st = "live"
  /\ \E trans \in TransChars :
       \E a \in MulArgs(IF trans \in {"n", "N"} THEN mats[i]._n ELSE mats[i]._m,
                        IF trans \in {"n", "N"} THEN mats[i]._m ELSE mats[i]._n) :
         LET r == MulCall(mats[i], heap, trans, a.alpha, a.x, a.beta, a.y)
         IN  last' = [op |-> "Mul", inst |-> i, status |-> r.status, trans |-> trans,
                      alpha |-> a.alpha, x |-> a.x, beta |-> a.beta, y_in |-> a.y,
                      y |-> r.y]
  /\ UNCHANGED <<input, mats, heap, nextAddr, frees, equilCalls, normEquilibrate,
                 normNormalize, aborted>>

\* MatrixSparse<T>::Equil(d, e) under the build's equilibration norm and
\* normalization norm.  Each step of the body is bound in turn.  status -1 with
\* aborted: ASSERT(false) in NormEst ended the process inside the call.  tr
\* records the call's intermediate values.  A byte of the fresh sign array is
\* indeterminate (-1 here) until it is written.
Equil(i) ==
  /\ ~aborted
  /\ mats[i].st = "live"
  /\ mats[i]._done_init => equilCalls[i] < MaxEquil
  /\ \E n2 \in Norm2EstRange, d \in {Arr([k \in 1..mats[i]._m |-> Unwritten])},
        e \in {Arr([k \in 1..mats[i]._n |-> Unwritten])} :
       IF ~mats[i]._done_init
       THEN /\ last' = [op |-> "Equil", inst |-> i, status |-> 1, d_in |-> d, e_in |-> e,
                        d |-> d, e |-> e, tr |-> [sign |-> 0]]
            /\ UNCHANGED <<heap, nextAddr, frees, aborted, equilCalls>>
       ELSE
         LET A == mats[i]
             m == A._m
             n == A._n
             nnz == A._nnz
             ind == heap[A._ind].v
             ptr == heap[A._ptr].v
             num_el == 2 * nnz
             num_sign_bytes == (num_el + 7) \div 8
             b0 == [x |-> heap[A._data].v, sign |-> Arr([t \in 1..num_sign_bytes |-> -1]),
                    set |-> Arr([j \in 1..num_el |-> 0]),
                    unset |-> Arr([j \in 1..num_el |-> 0])]
         IN
         \E sg \in {New(heap, nextAddr, [kind |-> "sign", v |-> b0.sign])} :
         \E b1 \in {ExtractSigns(b0, num_el, normEquilibrate)} :
         \E sk \in {SinkhornKnopp(A._ord, m, n, nnz, b1.x, ind, ptr)} :
         \E b2 \in {RestoreSigns(b1, num_el, normEquilibrate)} :
         \E d1 \in {SqrtScale(sk.d, normEquilibrate)} :
         \E e1 \in {SqrtScale(sk.e, normEquilibrate)} :
         \E x3 \in {MultDiag(d1, e1, m, n, nnz, A._ord, b2.x, ind, ptr)} :
         \E ne \in {NormEst(normNormalize, m, n, nnz, x3, n2)} :
           LET tr == [sign |-> sg.addr, sign_len |-> num_sign_bytes, before |-> b0.x,
                      extracted |-> b1, sk |-> sk, restored |-> b2, d1 |-> d1,
                      e1 |-> e1, scaled |-> x3, n2 |-> n2, norm |-> ne]
           IN
           IF ~ne.ok
           THEN /\ heap' = [sg.heap EXCEPT ![A._data].v = x3, ![sg.addr].v = b2.sign]
                /\ nextAddr' = sg.next
                /\ aborted' = TRUE
                /\ equilCalls' = [equilCalls EXCEPT ![i] = @ + 1]
                /\ last' = [op |-> "Equil", inst |-> i, status |-> -1, d_in |-> d,
                            e_in |-> e, d |-> d1, e |-> e1, tr |-> tr]
                /\ UNCHANGED frees
           ELSE
             \E x4 \in {vector_scale(x3, NDiv(R(1), ne.val))} :
             \E de \in {ScaleDE(d1, e1, ne.val)} :
             \E fs \in {FreeSign([sg.heap EXCEPT ![A._data].v = x4, ![sg.addr].v = b2.sign],
                                 frees, sg.addr)} :
               /\ heap' = fs.heap
               /\ nextAddr' = sg.next
               /\ frees' = fs.frees
               /\ equilCalls' = [equilCalls EXCEPT ![i] = @ + 1]
               /\ last' = [op |-> "Equil", inst |-> i, status |-> 0, d_in |-> d,
                           e_in |-> e, d |-> de.d, e |-> de.e, tr |-> tr]
               /\ UNCHANGED aborted
  /\ UNCHANGED <<input, mats, normEquilibrate, normNormalize>>

\* ------------------------------------------------------------------------
\* Specifications.
\* ------------------------------------------------------------------------
InitWith(in, kEq, kNrm) ==
  /\ input \in in
  /\ mats = Arr([i \in 1..MaxInst |-> NoMatrix])
  /\ heap = <<>>
  /\ nextAddr = 1
  /\ frees = <<>>
  /\ equilCalls = Arr([i \in 1..MaxInst |-> 0])
  /\ normEquilibrate \in kEq
  /\ normNormalize \in kNrm
  /\ aborted = FALSE
  /\ last = [op |-> "none", inst |-> 0, status |-> 0]

\* One matrix of at most 2 x 2, built as shipped (2-norm equilibration,
\* Frobenius normalization), under every call of the interface.
ApiInputs ==
  UNION {InputsOfShape(s[1], s[2]) :
           s \in {t \in Shapes(MaxCells) : t[1] <= 2 /\ t[2] <= 2}} \cup {Scenario}

Init == InitWith(ApiInputs, {kNormEquilibrate}, {kNormNormalize})

Next ==
  \/ Construct(1)
  \/ MatrixSparse_Init(1)
  \/ Mul(1)
  \/ Equil(1)
  \/ Destroy(1)

Spec == Init /\ [][Next]_vars

\* One matrix of at most MaxCells cells, built as shipped, equilibrated.
InitEquil == InitWith(Inputs, {kNormEquilibrate}, {kNormNormalize})

NextEquil ==
  \/ Construct(1)
  \/ MatrixSparse_Init(1)
  \/ Equil(1)
  \/ Destroy(1)

SpecEquil == InitEquil /\ [][NextEquil]_vars

\* One matrix under each build of the two file scoped constants.  The matrices
\* are a row, a column and the 2 x 2 reference matrix: under these the exact
\* numbers of repeated equilibrations stay within TLC's integers for all nine
\* builds.
NormInputs == InputsOfShape(1, 2) \cup InputsOfShape(2, 1) \cup {Scenario}

InitNorm == InitWith(NormInputs, NormTypes, NormTypes)

NextNorm ==
  \/ Construct(1)
  \/ MatrixSparse_Init(1)
  \/ Equil(1)

SpecNorm == InitNorm /\ [][NextNorm]_vars

\* One long row or column, built as shipped: the sign passes meet whole bytes.
InitCodec == InitWith(WideInputs, {kNormEquilibrate}, {kNormNormalize})

NextCodec ==
  \/ Construct(1)
  \/ MatrixSparse_Init(1)
  \/ Equil(1)

SpecCodec == InitCodec /\ [][NextCodec]_vars

\* MaxInst instances over one caller input: construction, copies, Init, destruction.
LifeInputs == InputsOfShape(1, 1) \cup {Scenario}

InitLife == InitWith(LifeInputs, {kNormEquilibrate}, {kNormNormalize})

NextLife ==
  \E i \in 1..MaxInst :
    \/ Construct(i)
    \/ \E j \in 1..MaxInst \ {i} : CopyConstruct(i, j)
    \/ MatrixSparse_Init(i)
    \/ Destroy(i)

SpecLife == InitLife /\ [][NextLife]_vars

\* ------------------------------------------------------------------------
\* Reading the buffers of an initialized matrix.
\* ------------------------------------------------------------------------
Initialized(i) == mats[i].st = "live" /\ mats[i]._done_init

\* Entry p (0-based, p < 2 * nnz) lies in the half that is compressed by rows.
InRowView(A, p) == (A._ord = "ROW") = (p < A._nnz)

\* The bucket (row of the row view, column of the column view) of entry p.
PosBucket(A, p) ==
  LET h   == IF InRowView(A, p) THEN RowHalf(A._ord, A._m, A._n, A._nnz)
             ELSE ColHalf(A._ord, A._m, A._n, A._nnz)
      dim == IF InRowView(A, p) THEN A._m ELSE A._n
  IN  BucketOf(Slice(heap[A._ptr].v, h.poff, dim + 1), dim, p - h.off)

\* The row and the column of the logical entry that entry p is a copy of.
PosRow(A, p) == IF InRowView(A, p) THEN PosBucket(A, p) ELSE At(heap[A._ind].v, p)
PosCol(A, p) == IF InRowView(A, p) THEN At(heap[A._ind].v, p) ELSE PosBucket(A, p)

\* The (row, col, value) triples of one half of the value buffer x of A.
HalfTriples(A, x, first) ==
  Arr([k \in 1..A._nnz |->
         LET p == (IF first THEN 0 ELSE A._nnz) + k - 1
         IN  <<PosRow(A, p), PosCol(A, p), At(x, p)>>])

Count(s, t) == Cardinality({k \in 1..Len(s) : s[k] = t})

\* s and u hold the same elements, each as often.
SameBag(s, u) ==
  /\ Len(s) = Len(u)
  /\ \A k \in 1..Len(s) : Count(s, s[k]) = Count(u, s[k])

SameTriples(A, x) == SameBag(HalfTriples(A, x, TRUE), HalfTriples(A, x, FALSE))

\* The logical entry (r, c) of A, read from the half the caller's view was copied to.
NativeEntry(A, r, c) ==
  LET b    == IF A._ord = "ROW" THEN r ELSE c
      s    == IF A._ord = "ROW" THEN c ELSE r
      hits == {i \in At(heap[A._ptr].v, b)..(At(heap[A._ptr].v, b + 1) - 1) :
                 At(heap[A._ind].v, i) = s}
  IN  IF hits = {} THEN R(0) ELSE At(heap[A._data].v, CHOOSE i \in hits : TRUE)

\* Entry t of op(A) * x, as a sum over all the cells of the row (column) of A.
RECURSIVE RefDot(_, _, _, _, _)
RefDot(A, notrans, t, x, k) ==
  IF k = 0 THEN {}
  ELSE SAdd(RefDot(A, notrans, t, x, k - 1),
            NMul(IF notrans THEN NativeEntry(A, t - 1, k - 1)
                 ELSE NativeEntry(A, k - 1, t - 1), x[k]))

\* alpha * op(A) * x + beta * y.
RefMul(A, trans, alpha, x, beta, y) ==
  LET notrans == trans \in {"n", "N"}
      xlen == IF notrans THEN A._n ELSE A._m
      ylen == IF notrans THEN A._m ELSE A._n
  IN  Arr([t \in 1..ylen |->
             SPlus(SScale(alpha, RefDot(A, notrans, t, x, xlen)), SScale(beta, y[t]))])

\* The caller's matrix as row-major cells (0 = not stored).
InputCells ==
  Arr([c \in 1..(input.m * input.n) |->
         LET r    == (c - 1) \div input.n
             cc   == (c - 1) % input.n
             row  == input.ord \in {"r", "R"}
             b    == IF row THEN r ELSE cc
             s    == IF row THEN cc ELSE r
             hits == {i \in At(input.ptr, b)..(At(input.ptr, b + 1) - 1) :
                        At(input.ind, i) = s}
         IN  IF hits = {} THEN 0
             ELSE LET v == At(input.data, CHOOSE i \in hits : TRUE) IN v.sg * v.n])

\* The row-compressed ("r") or column-compressed ("c") view of the caller's matrix.
ViewOf(o) == Compress(o, input.m, input.n, InputCells)

\* The buffers of instance i hold the view `first` and then the view `second`;
\* the values are compared until Equil rescales them.
LayoutIs(i, first, second) ==
  /\ heap[mats[i]._ind].v = first.ind \o second.ind
  /\ heap[mats[i]._ptr].v = first.ptr \o second.ptr
  /\ equilCalls[i] = 0 => heap[mats[i]._data].v = first.data \o second.data

\* ------------------------------------------------------------------------
\* Claims.
\* ------------------------------------------------------------------------
\* C1: Mul on an initialized matrix of either storage order returns 0 and
\* leaves y = alpha * op(A) * x + beta * y_before, op being the identity for
\* n/N and the transpose for t/T.
MulContract ==
  (last.op = "Mul" /\ mats[last.inst]._done_init) =>
    /\ last.status = 0
    /\ last.y = RefMul(mats[last.inst], last.trans, last.alpha, last.x, last.beta,
                       last.y_in)

\* C1, witness: the 2 x 2 scenario, Mul('n', 1, [1,1], 0, y) has left y = [6,3].
MulScenario ==
  /\ input = Scenario
  /\ last.op = "Mul" /\ last.status = 0 /\ last.trans = "n"
  /\ last.alpha = R(1) /\ last.beta = R(0)
  /\ last.x = <<R(1), R(1)>>
  /\ equilCalls[last.inst] = 0
  /\ last.y = <<{R(6)}, {R(3)}>>

\* C2: after a successful Init and after every in-place step of Equil (sign
\* extraction, sign restoration, diagonal scaling, global scaling) the
\* row-compressed half and the column-compressed half hold the same multiset of
\* (row, col, value) triples.
HalvesAgree ==
  \A i \in 1..MaxInst :
    Initialized(i) =>
      /\ SameTriples(mats[i], heap[mats[i]._data].v)
      /\ (last.op = "Equil" /\ last.inst = i /\ last.status = 0) =>
           /\ SameTriples(mats[i], last.tr.extracted.x)
           /\ SameTriples(mats[i], last.tr.restored.x)
           /\ SameTriples(mats[i], last.tr.scaled)

\* C2, witness: Equil has rescaled a matrix whose two halves list the entries in
\* different orders.
HalvesAgreeAfterEquil ==
  /\ last.op = "Equil" /\ last.status = 0
  /\ Initialized(last.inst)
  /\ LET A == mats[last.inst]
         x == heap[A._data].v
     IN  /\ A._nnz >= 2
         /\ Slice(x, 0, A._nnz) # Slice(x, A._nnz, A._nnz)
         /\ x # last.tr.before

\* C3: when Equil returns 0, every stored entry equals
\* d[row] * A_orig[row, col] * e[col] for the d and e it reports.
FactorIdentity ==
  (last.op = "Equil" /\ last.status = 0) =>
    LET A == mats[last.inst]
    IN  \A p \in 0..(2 * A._nnz - 1) :
          At(heap[A._data].v, p) =
            NMul(NMul(At(last.d, PosRow(A, p)), At(last.tr.before, p)),
                 At(last.e, PosCol(A, p)))

\* C3, witness: Equil has returned 0 after dividing the values by a norm that
\* is not 1.
FactorIdentityRenormalized ==
  /\ last.op = "Equil" /\ last.status = 0
  /\ mats[last.inst]._nnz >= 2
  /\ last.tr.norm.val # R(1)
  /\ heap[mats[last.inst]._data].v # last.tr.scaled

RowViewFirst ==
  \A i \in 1..MaxInst :
    Initialized(i) => LayoutIs(i, ViewOf("r"), ViewOf("c"))

\* C5, amended: the view of the declared storage order comes first: a ROW matrix
\* holds the row-compressed view and then the column-compressed one (pointer
\* arrays of length m+1, then n+1), a COL matrix holds the column-compressed
\* view and then the row-compressed one (n+1, then m+1); MultDiag scales every
\* entry by d[row] * e[col] under that reading.
NativeViewFirst ==
  \A i \in 1..MaxInst :
    Initialized(i) =>
      /\ IF mats[i]._ord = "ROW"
         THEN LayoutIs(i, ViewOf("r"), ViewOf("c"))
         ELSE LayoutIs(i, ViewOf("c"), ViewOf("r"))
      /\ (last.op = "Equil" /\ last.inst = i /\ last.status = 0) =>
           \A p \in 0..(2 * mats[i]._nnz - 1) :
             At(last.tr.scaled, p) =
               NMul(NMul(At(last.tr.d1, PosRow(mats[i], p)), At(last.tr.restored.x, p)),
                    At(last.tr.e1, PosCol(mats[i], p)))

\* C5, witness: a COL matrix whose two views differ has been initialized and
\* equilibrated.
ColMatrixEquilibrated ==
  /\ last.op = "Equil" /\ last.status = 0
  /\ mats[last.inst]._ord = "COL"
  /\ ViewOf("r").ptr # ViewOf("c").ptr
  /\ mats[last.inst]._nnz >= 2

\* C6, as stated: the Frobenius estimate is the 2-norm of all the 2 * nnz
\* entries of the value buffer over sqrt(min(m, n)); a 2-norm request returns
\* the power-iteration estimate; any other request is rejected.
FrobeniusOverWholeBuffer ==
  (last.op = "Equil" /\ last.status # 1) =>
    LET A == mats[last.inst]
        val == last.tr.norm.val
    IN  CASE normNormalize = "kNormFro" ->
               /\ last.status = 0 /\ val.sg = 1
               /\ NMul(NMul(val, val), R(Min(A._m, A._n))) =
                    SumSquares(last.tr.scaled, 2 * A._nnz, R(0))
          [] normNormalize = "kNorm2" -> last.status = 0 /\ val = last.tr.n2
          [] OTHER -> last.status = -1 /\ aborted

\* C6, amended: the Frobenius estimate is the 2-norm of the first nnz entries
\* of the value buffer (one copy of each logical entry) over sqrt(min(m, n)); a
\* 2-norm request returns the power-iteration estimate; any other request is
\* rejected by ASSERT.
FrobeniusOverOneHalf ==
  (last.op = "Equil" /\ last.status # 1) =>
    LET A == mats[last.inst]
        val == last.tr.norm.val
    IN  CASE normNormalize = "kNormFro" ->
               /\ last.status = 0 /\ val.sg = 1
               /\ NMul(NMul(val, val), R(Min(A._m, A._n))) =
                    SumSquares(last.tr.scaled, A._nnz, R(0))
          [] normNormalize = "kNorm2" -> last.status = 0 /\ val = last.tr.n2
          [] OTHER -> last.status = -1 /\ aborted

\* C6, witness: Equil has normalized a matrix with stored entries by its
\* Frobenius estimate.
FrobeniusNormalized ==
  /\ last.op = "Equil" /\ last.status = 0
  /\ normNormalize = "kNormFro"
  /\ mats[last.inst]._nnz >= 2
  /\ ~IsZero(last.tr.norm.val)

SignBufferReleased ==
  /\ \A a \in DOMAIN heap : heap[a].kind # "sign"
  /\ last.op = "Equil" =>
       IF last.status = 1 THEN last.tr.sign = 0
       ELSE /\ last.tr.sign \in DOMAIN frees
            /\ frees[last.tr.sign] = 1

\* C8, witness: Equil has completed and its sign buffer has been released.
SignBufferFreedOnce ==
  /\ last.op = "Equil" /\ last.status = 0
  /\ last.tr.sign_len >= 1
  /\ last.tr.sign \in DOMAIN frees
  /\ last.tr.sign \notin DOMAIN heap

\* C9: sign extraction and sign restoration each process every one of the
\* 2 * nnz entries exactly once (bytes first, the tail after them), every sign
\* bit lies in the ceil(2 * nnz / 8) bytes of the sign buffer, and squaring
\* followed by the signed square root returns every entry to its value.
SignPassesCoverOnce ==
  (last.op = "Equil" /\ last.status = 0) =>
    LET tr == last.tr
        num_el == 2 * mats[last.inst]._nnz
    IN  /\ Len(tr.before) = num_el
        /\ tr.sign_len * 8 >= num_el /\ (tr.sign_len - 1) * 8 < num_el
        /\ Len(tr.extracted.sign) = tr.sign_len
        /\ \A j \in 1..num_el :
             /\ tr.extracted.set[j] = 1
             /\ tr.restored.unset[j] = 1
             /\ (j - 1) \div 8 < tr.sign_len
             /\ Bit(tr.extracted.sign[(j - 1) \div 8 + 1], (j - 1) % 8) =
                  (IF tr.before[j].sg < 0 THEN 1 ELSE 0)
             /\ tr.extracted.x[j] = NMul(tr.before[j], tr.before[j])
             /\ tr.restored.x[j] = tr.before[j]

\* C9, witness: Equil has run on 10 entries, 8 in a whole byte and 2 in the
\* tail, with a negative entry in each part.
BulkAndTail ==
  /\ last.op = "Equil" /\ last.status = 0
  /\ mats[last.inst]._nnz = 5
  /\ last.tr.before[1].sg = -1
  /\ last.tr.before[10].sg = -1

\* The heap blocks instance i owns.
Owned(i) ==
  IF mats[i].st # "live" THEN {}
  ELSE {mats[i]._info} \cup
       (IF mats[i]._done_init THEN {mats[i]._data, mats[i]._ind, mats[i]._ptr} ELSE {})

\* C10: over construct, copy-construct, Init and destroy, no block is released
\* twice; a block is live exactly when a live instance owns it (its CpuData,
\* and its three buffers if and only if Init ran on it), so that destroying an
\* instance releases its own blocks and no other's; a copy starts uninitialized,
\* without buffers, with a CpuData of its own that names the same caller arrays.
LifecycleReleasesOnce ==
  /\ \A a \in DOMAIN frees : frees[a] = 1
  /\ DOMAIN heap \cap DOMAIN frees = {}
  /\ DOMAIN heap \cup DOMAIN frees = 1..(nextAddr - 1)
  /\ DOMAIN heap = UNION {Owned(i) : i \in 1..MaxInst}
  /\ \A i \in 1..MaxInst :
       mats[i].st = "live" =>
         /\ heap[mats[i]._info].kind = "CpuData"
         /\ Cardinality(Owned(i)) = IF mats[i]._done_init THEN 4 ELSE 1
         /\ ~mats[i]._done_init =>
              mats[i]._data = 0 /\ mats[i]._ind = 0 /\ mats[i]._ptr = 0
         /\ \A j \in 1..MaxInst \ {i} : Owned(i) \cap Owned(j) = {}
  /\ last.op = "copy" =>
       /\ ~mats[last.inst]._done_init
       /\ mats[last.inst]._info # mats[last.from]._info
       /\ heap[mats[last.inst]._info].v = heap[mats[last.from]._info].v

\* C10, witness: an initialized matrix has been copied.
CopyOfInitialized ==
  /\ last.op = "copy"
  /\ mats[last.from]._done_init
  /\ mats[last.inst].st = "live"
  /\ ~mats[last.inst]._done_init

=============================================================================
